---------------------------- MODULE Spec2Model ----------------------------
(***************************************************************************)
(* Essay Analysis Tool (src/Essay_analyzer.py).                            *)
(*                                                                         *)
(* A page with a text area, a "Document Info" column and an "Analyze       *)
(* Essay" button.  The button runs final_chain: three parallel branches    *)
(* (summary, Weakness, Suggestions) of prompt -> llm -> parser steps, then *)
(* final_prompt -> llm -> parser, and renders the returned report.         *)
(*                                                                         *)
(* Text is a sequence of one-character strings, so that the Python string  *)
(* methods the page uses (split, strip, replace, upper, startswith, join)  *)
(* are computed character by character as Python computes them.           *)
(***************************************************************************)
EXTENDS Integers, Sequences, FiniteSets, TLC

VARIABLES
    essay_input,   \* the text area's value
    doc_info,      \* the "Document Info" column: <<>> or one record of counts
    phase,         \* "idle" | "busy" | "shown": the button handler's position
    branch,        \* chain1's steps: branch name -> [pc, val]
    final,         \* final_prompt | llm | parser: "wait" | "calling" | "done" | "failed"
    calls,         \* the llm invocations of the request: issuer -> those it made, in order
    result,        \* final_chain.invoke's return value (<<>> until it returns)
    clean_result,  \* result after the three replace calls
    st_warning,    \* st.warning shown
    st_error,      \* the st.error messages shown
    st_report,     \* what the try block wrote, in order
    st_download    \* <<>> or one record: the download button's data

vars == <<essay_input, doc_info, phase, branch, final, calls, result,
          clean_result, st_warning, st_error, st_report, st_download>>

---------------------------------------------------------------------------
(* Python str methods *)

NL == "\n"

\* str.strip, str.split and str.isspace treat these as whitespace.
Whitespace == {" ", NL}

LowerCase == <<"a","b","c","d","e","f","g","h","i","j","k","l","m",
               "n","o","p","q","r","s","t","u","v","w","x","y","z">>
UpperCase == <<"A","B","C","D","E","F","G","H","I","J","K","L","M",
               "N","O","P","Q","R","S","T","U","V","W","X","Y","Z">>

UpperChar(c) ==
    IF \E i \in DOMAIN LowerCase : LowerCase[i] = c
    THEN UpperCase[CHOOSE i \in DOMAIN LowerCase : LowerCase[i] = c]
    ELSE c

\* A variant that leaves the case as it is.
Upper_AsIs(s) == s

\* s.upper()
Upper(s) == [i \in DOMAIN s |-> UpperChar(s[i])]

\* s.startswith(p)
StartsWith(s, p) == Len(s) >= Len(p) /\ SubSeq(s, 1, Len(p)) = p

RECURSIVE FindFrom(_, _, _)
\* The first position >= i where sep occurs in s, 0 when there is none
FindFrom(s, sep, i) ==
    IF i + Len(sep) - 1 > Len(s) THEN 0
    ELSE IF SubSeq(s, i, i + Len(sep) - 1) = sep THEN i
    ELSE FindFrom(s, sep, i + 1)

\* s.find(sep) as a 1-based index, 0 when sep does not occur
Find(s, sep) == FindFrom(s, sep, 1)

RECURSIVE Replace(_, _, _)
\* s.replace(old, new): non-overlapping occurrences, left to right, one pass
Replace(s, old, new) ==
    LET i == Find(s, old)
    IN  IF i = 0 THEN s
        ELSE SubSeq(s, 1, i - 1) \o new
             \o Replace(SubSeq(s, i + Len(old), Len(s)), old, new)

RECURSIVE Split(_, _)
\* s.split(sep)
Split(s, sep) ==
    LET i == Find(s, sep)
    IN  IF i = 0 THEN <<s>>
        ELSE <<SubSeq(s, 1, i - 1)>> \o Split(SubSeq(s, i + Len(sep), Len(s)), sep)

RECURSIVE LStrip(_)
LStrip(s) == IF s # <<>> /\ s[1] \in Whitespace THEN LStrip(Tail(s)) ELSE s

RECURSIVE RStrip(_)
RStrip(s) ==
    IF s # <<>> /\ s[Len(s)] \in Whitespace THEN RStrip(SubSeq(s, 1, Len(s) - 1)) ELSE s

\* s.strip()
Strip(s) == RStrip(LStrip(s))

\* s.isspace()
IsSpace(s) == s # <<>> /\ \A i \in DOMAIN s : s[i] \in Whitespace

RECURSIVE TokenEnd(_, _)
\* The first position >= i of t that holds whitespace, Len(t) + 1 when none does
TokenEnd(t, i) ==
    IF i > Len(t) \/ t[i] \in Whitespace THEN i ELSE TokenEnd(t, i + 1)

RECURSIVE SplitWhitespace(_)
\* s.split() with no separator: the runs of non-whitespace characters
SplitWhitespace(s) ==
    LET t == LStrip(s)
    IN  IF t = <<>> THEN <<>>
        ELSE <<SubSeq(t, 1, TokenEnd(t, 1) - 1)>>
             \o SplitWhitespace(SubSeq(t, TokenEnd(t, 1), Len(t)))

RECURSIVE Join(_, _)
\* sep.join(parts)
Join(sep, parts) ==
    IF parts = <<>> THEN <<>>
    ELSE IF Len(parts) = 1 THEN parts[1]
    ELSE parts[1] \o sep \o Join(sep, Tail(parts))

\* s.strip() is truthy
NonBlank(s) == Strip(s) # <<>>

RECURSIVE NonBlankOnly(_)
\* [x for x in xs if x.strip()]
NonBlankOnly(xs) ==
    IF xs = <<>> THEN <<>>
    ELSE (IF NonBlank(xs[1]) THEN <<xs[1]>> ELSE <<>>) \o NonBlankOnly(Tail(xs))

---------------------------------------------------------------------------
(* Document Info *)

word_count(text) == Len(SplitWhitespace(text))

para_count(text) == Len(NonBlankOnly(Split(text, <<NL, NL>>)))

\* A variant that splits on "." only.
sentence_count_PeriodOnly(text) == Len(NonBlankOnly(Split(text, <<".">>)))

sentence_count(text) ==
    Len(NonBlankOnly(
          Split(Replace(Replace(text, <<"?">>, <<".">>), <<"!">>, <<".">>), <<".">>)))

\* The col2 block: nothing is written for an empty (falsy) essay_input.
DocumentInfo(text) ==
    IF text = <<>> THEN <<>>
    ELSE <<[words |-> word_count(text),
            paragraphs |-> para_count(text),
            sentences |-> sentence_count(text)]>>

---------------------------------------------------------------------------
(* Prompt templates and the chain *)

\* A template is a sequence of parts: literal text, or a named placeholder.
\* The long literal texts are abridged at [...]; the placeholders and their
\* order are those of the source.
Lit(text) == [lit |-> text, var |-> ""]
Var(name) == [lit |-> "", var |-> name]

essay_prompt ==
    <<Lit("Evaluate the essay provided in the input. Work in three sections only. [...] Base your analysis strictly on the text.\n"),
      Var("essay")>>

weakness_highlighter ==
    <<Lit("Identify every weakness present in the following text. [...] Return only the weaknesses with no added explanation.\n\nText:\n"),
      Var("analysis_output")>>

suggestion_generator ==
    <<Lit("Provide precise, high-value suggestions based on the following text. [...] Do not add commentary, questions, or motivational tone.\n"),
      Var("analysis_output")>>

final_prompt ==
    <<Lit("\nCreate a clear, well-structured analysis report with the following sections:\n\nMAIN WEAKNESSES:\n"),
      Var("Weakness"),
      Lit("\n\nSUGGESTIONS FOR IMPROVEMENT:\n"),
      Var("Suggestions"),
      Lit("\n\nOVERVIEW:\n"),
      Var("summary"),
      Lit("\n\nFormat each section clearly without markdown tables or complex formatting.\n")>>

\* PromptTemplate.format: every placeholder replaced by the value bound to its
\* name; a rendered part is literal text or a substituted value.
Format(template, bindings) ==
    [i \in DOMAIN template |->
        IF template[i].var = ""
        THEN [lit |-> template[i].lit, text |-> <<>>]
        ELSE [lit |-> "", text |-> bindings[template[i].var]]]

\* The keys of chain1, in the order RunnableParallel collects their results.
Branches == <<"summary", "Weakness", "Suggestions">>
BranchNames == {Branches[i] : i \in DOMAIN Branches}

\* The template a branch pipes its first output into (none for summary).
SecondTemplate(b) ==
    IF b = "Weakness" THEN weakness_highlighter
    ELSE IF b = "Suggestions" THEN suggestion_generator
    ELSE <<>>

\* The prompt a branch sends next: essay_prompt from the chain's input on its
\* first step, its second template from its own first output afterwards.
BranchPrompt(b) ==
    IF branch[b].pc = "start"
    THEN Format(essay_prompt, [essay |-> essay_input])
    ELSE Format(SecondTemplate(b), [analysis_output |-> branch[b].val])

\* A variant that binds the Weakness and Suggestions outputs the wrong way round.
FinalPrompt_Swapped ==
    Format(final_prompt,
           [summary |-> branch["summary"].val,
            Weakness |-> branch["Suggestions"].val,
            Suggestions |-> branch["Weakness"].val])

\* chain1's output dict, piped into final_prompt.
FinalPrompt == Format(final_prompt, [b \in BranchNames |-> branch[b].val])

\* StrOutputParser: the text of the model's message.
parser(message) == message.content

\* The issuers of llm invocations: the three branches and the final step.
Issuers == BranchNames \cup {"final"}

NoCalls == [by \in Issuers |-> <<>>]

\* llm.invoke(prompt) is entered: the invocation is pending.
Invoke(by, prompt) ==
    [calls EXCEPT ![by] = Append(@, [prompt |-> prompt, status |-> "pending",
                                     out |-> <<>>, err |-> ""])]

\* The pending invocation of `by` (its last) returns text, or raises.
Returned(by, out) ==
    [calls EXCEPT ![by][Len(calls[by])].status = "ok", ![by][Len(calls[by])].out = out]
Raised(by, err) ==
    [calls EXCEPT ![by][Len(calls[by])].status = "raised", ![by][Len(calls[by])].err = err]

AnalysisFailed == <<"A","n","a","l","y","s","i","s"," ","f","a","i","l","e","d",":"," ">>

\* st.error(f"Analysis failed: {str(e)}")
ErrorMessage(err) == [prefix |-> AnalysisFailed, description |-> err]

---------------------------------------------------------------------------
(* Rendering of the report *)

MAIN_WEAKNESSES == <<"M","A","I","N"," ","W","E","A","K","N","E","S","S","E","S">>
SUGGESTIONS == <<"S","U","G","G","E","S","T","I","O","N","S">>
OVERVIEW == <<"O","V","E","R","V","I","E","W">>

Subheader(label) == [kind |-> "subheader", label |-> label, text |-> <<>>]
Write(text) == [kind |-> "write", label |-> "", text |-> text]
Rule == Write(<<"-","-","-">>)

\* result.replace('|', '').replace('---', '').replace('-------', '')
Clean(report) ==
    Replace(Replace(Replace(report, <<"|">>, <<>>), <<"-","-","-">>, <<>>),
            <<"-","-","-","-","-","-","-">>, <<>>)

\* The bullet of f"\u2022 {line.strip()}" (U+2022), written here in ASCII.
BulletMark == "*"

RECURSIVE Bullets_Untrimmed(_)
\* A variant that writes each line without stripping it.
Bullets_Untrimmed(lines) ==
    IF lines = <<>> THEN <<>>
    ELSE (IF Strip(lines[1]) # <<>> /\ ~IsSpace(lines[1])
          THEN <<Write(<<BulletMark, " ">> \o lines[1])>>
          ELSE <<>>) \o Bullets_Untrimmed(Tail(lines))

RECURSIVE Bullets(_)
\* for line in lines[1:]: if line.strip() and not line.isspace(): st.write(...)
Bullets(lines) ==
    IF lines = <<>> THEN <<>>
    ELSE (IF Strip(lines[1]) # <<>> /\ ~IsSpace(lines[1])
          THEN <<Write(<<BulletMark, " ">> \o Strip(lines[1]))>>
          ELSE <<>>) \o Bullets(Tail(lines))

\* ' '.join(lines[1:]) if len(lines) > 1 else ' '.join(lines)
OverviewContent(lines) ==
    IF Len(lines) > 1 THEN Join(<<" ">>, Tail(lines)) ELSE Join(<<" ">>, lines)

\* One pass of the loop over sections.
RenderSection(section) ==
    IF Strip(section) = <<>> THEN <<>>
    ELSE LET lines == Split(Strip(section), <<NL>>)
             section_title == Strip(lines[1])
         IN  IF StartsWith(Upper(section_title), MAIN_WEAKNESSES)
             THEN <<Rule, Subheader("Main Weaknesses")>> \o Bullets(Tail(lines))
             ELSE IF StartsWith(Upper(section_title), SUGGESTIONS)
             THEN <<Rule, Subheader("Suggestions for Improvement")>> \o Bullets(Tail(lines))
             ELSE IF StartsWith(Upper(section_title), OVERVIEW)
             THEN <<Rule, Subheader("Overview"), Write(OverviewContent(lines))>>
             ELSE IF Len(lines) > 1 THEN <<Write(section)>> ELSE <<>>

RECURSIVE RenderSections(_)
RenderSections(sections) ==
    IF sections = <<>> THEN <<>>
    ELSE RenderSection(sections[1]) \o RenderSections(Tail(sections))

\* Everything the try block writes once final_chain.invoke has returned.
RenderReport(clean) ==
    <<Subheader("Analysis Report")>> \o RenderSections(Split(clean, <<NL, NL>>))

\* A variant that offers the cleaned text.
DownloadButton_Cleaned(data) ==
    [label |-> "Download Analysis Report", data |-> Clean(data),
     file_name |-> "essay_analysis.txt", mime |-> "text/plain"]

\* st.download_button(..., data=result, file_name=..., mime=...)
DownloadButton(data) ==
    [label |-> "Download Analysis Report", data |-> data,
     file_name |-> "essay_analysis.txt", mime |-> "text/plain"]

---------------------------------------------------------------------------
(* Inputs *)

\* All texts over an alphabet, up to a length.
Text(alphabet, n) == UNION {[1..k -> alphabet] : k \in 0..n}

MaxEssayLen == 2
MaxStatLen == 5
MaxReportLines == 5
MaxMarkupLen == 7
MaxBodyLen == 4

\* Essays submitted to the chain: blank ones and non-blank ones.
Essays == Text({"a", " ", NL}, MaxEssayLen)

\* Essays typed into the text area for the Document Info column.
StatEssays == Text({"a", " ", NL, ".", "?", "!"}, MaxStatLen)

\* What the model answers on a branch call, and the failures it raises.
Outputs == {<<"x">>, <<"y">>}
Failures == {"rate limit exceeded", "connection error"}

\* First lines of a section: the three headers, in several spellings, and a
\* line that is no header.
Headers ==
    { <<"M","A","I","N"," ","W","E","A","K","N","E","S","S","E","S",":">>,
      <<"S","u","g","g","e","s","t","i","o","n","s">>,
      <<"o","v","e","r","v","i","e","w">>,
      <<"n","o","t","e">> }

\* Reports as lines joined by newlines: headers, blank lines, table markup.
ReportLines == (Headers \ {<<"n","o","t","e">>}) \cup {<<>>, <<"|">>}
LineReports ==
    {Join(<<NL>>, lines) : lines \in UNION {[1..k -> ReportLines] : k \in 1..MaxReportLines}}

\* Reports of one first line and a short body under it.
BodyReports ==
    {h \o <<NL>> \o body : h \in Headers, body \in Text({"a", " ", NL, "|"}, MaxBodyLen)}

\* Short texts of markup characters.
MarkupReports == Text({"-", "|", "a"}, MaxMarkupLen)

Reports == LineReports \cup BodyReports \cup MarkupReports

\* The reports the model answers with when the whole chain is run.
ChainReports ==
    { <<"o","v","e","r","v","i","e","w",NL,"a","|","b">>,
      <<"-","-","-","-","-","-","-">> }

---------------------------------------------------------------------------
(* The page *)

NoBranch == [pc |-> "start", val |-> <<>>, err |-> ""]

Init ==
    /\ essay_input = <<>>
    /\ doc_info = <<>>
    /\ phase = "idle"
    /\ branch = [b \in BranchNames |-> NoBranch]
    /\ final = "wait"
    /\ calls = NoCalls
    /\ result = <<>>
    /\ clean_result = <<>>
    /\ st_warning = FALSE
    /\ st_error = <<>>
    /\ st_report = <<>>
    /\ st_download = <<>>

\* A rerun of the script with the button not pressed: only the text area and
\* the Document Info column are drawn.
TypeEssay(text) ==
    /\ phase \in {"idle", "shown"}
    /\ essay_input' = text
    /\ doc_info' = DocumentInfo(text)
    /\ phase' = "idle"
    /\ branch' = [b \in BranchNames |-> NoBranch]
    /\ final' = "wait"
    /\ calls' = NoCalls
    /\ result' = <<>>
    /\ clean_result' = <<>>
    /\ st_warning' = FALSE
    /\ st_error' = <<>>
    /\ st_report' = <<>>
    /\ st_download' = <<>>

\* A variant that tests the text itself: if not essay_input
EmptyInput_FalsyOnly(text) == text = <<>>

\* if not essay_input.strip()
EmptyInput(text) == Strip(text) = <<>>

\* "Analyze Essay" pressed: the warning for blank input, otherwise
\* final_chain.invoke starts and chain1 submits its three steps.
PressAnalyze ==
    /\ phase \in {"idle", "shown"}
    /\ doc_info' = DocumentInfo(essay_input)
    /\ branch' = [b \in BranchNames |-> NoBranch]
    /\ final' = "wait"
    /\ calls' = NoCalls
    /\ result' = <<>>
    /\ clean_result' = <<>>
    /\ st_error' = <<>>
    /\ st_report' = <<>>
    /\ st_download' = <<>>
    /\ IF EmptyInput(essay_input)
       THEN st_warning' = TRUE /\ phase' = "shown"
       ELSE st_warning' = FALSE /\ phase' = "busy"
    /\ UNCHANGED essay_input

\* A branch renders its next prompt and invokes llm.
BranchCall(b) ==
    /\ phase = "busy"
    /\ branch[b].pc \in {"start", "mid"}
    /\ calls' = Invoke(b, BranchPrompt(b))
    /\ branch' = [branch EXCEPT ![b].pc = IF @ = "start" THEN "call1" ELSE "call2"]
    /\ UNCHANGED <<essay_input, doc_info, phase, final, result, clean_result,
                   st_warning, st_error, st_report, st_download>>

\* llm returns to a branch; parser passes the text on to the branch's next
\* step, or the branch is complete.
BranchReturn(b, out) ==
    /\ phase = "busy"
    /\ branch[b].pc \in {"call1", "call2"}
    /\ calls' = Returned(b, out)
    /\ branch' = [branch EXCEPT
                    ![b].val = parser([content |-> out]),
                    ![b].pc = IF @ = "call1" /\ SecondTemplate(b) # <<>> THEN "mid" ELSE "done"]
    /\ UNCHANGED <<essay_input, doc_info, phase, final, result, clean_result,
                   st_warning, st_error, st_report, st_download>>

\* A variant that sends the prompt again after a failure.
BranchRaise_Retry(b, err) ==
    /\ phase = "busy"
    /\ branch[b].pc \in {"call1", "call2"}
    /\ calls' = Raised(b, err)
    /\ branch' = [branch EXCEPT ![b].pc = IF @ = "call1" THEN "start" ELSE "mid"]
    /\ UNCHANGED <<essay_input, doc_info, phase, final, result, clean_result,
                   st_warning, st_error, st_report, st_download>>

\* llm raises in a branch: the branch ends with the exception.
BranchRaise(b, err) ==
    /\ phase = "busy"
    /\ branch[b].pc \in {"call1", "call2"}
    /\ calls' = Raised(b, err)
    /\ branch' = [branch EXCEPT ![b].pc = "failed", ![b].err = err]
    /\ UNCHANGED <<essay_input, doc_info, phase, final, result, clean_result,
                   st_warning, st_error, st_report, st_download>>

\* A variant that goes on as soon as the first step's result is there.
ChainJoined_SummaryOnly == branch["summary"].pc = "done"

\* A variant that goes on with the results of the steps that did not raise.
ChainJoined_IgnoreFailed == \A b \in BranchNames : branch[b].pc \in {"done", "failed"}

\* chain1 has every step's result: final_prompt is rendered and llm invoked.
ChainJoined == \A b \in BranchNames : branch[b].pc = "done"

FinalCall ==
    /\ phase = "busy"
    /\ final = "wait"
    /\ ChainJoined
    /\ calls' = Invoke("final", FinalPrompt)
    /\ final' = "calling"
    /\ UNCHANGED <<essay_input, doc_info, phase, branch, result, clean_result,
                   st_warning, st_error, st_report, st_download>>

\* final_chain.invoke returns: the rest of the try block runs.
FinalReturn(report) ==
    /\ phase = "busy"
    /\ final = "calling"
    /\ calls' = Returned("final", report)
    /\ final' = "done"
    /\ result' = parser([content |-> report])
    /\ clean_result' = Clean(result')
    /\ st_report' = RenderReport(clean_result')
    /\ st_download' = <<DownloadButton(result')>>
    /\ phase' = "shown"
    /\ UNCHANGED <<essay_input, doc_info, branch, st_warning, st_error>>

\* llm raises on the final call: except Exception shows the message.
FinalRaise(err) ==
    /\ phase = "busy"
    /\ final = "calling"
    /\ calls' = Raised("final", err)
    /\ final' = "failed"
    /\ st_error' = Append(st_error, ErrorMessage(err))
    /\ phase' = "shown"
    /\ UNCHANGED <<essay_input, doc_info, branch, result, clean_result,
                   st_warning, st_report, st_download>>

\* The exception chain1 raises: that of the first failed step in key order.
FirstFailure ==
    LET i == CHOOSE i \in DOMAIN Branches :
                 /\ branch[Branches[i]].pc = "failed"
                 /\ \A j \in 1..(i - 1) : branch[Branches[j]].pc # "failed"
    IN  branch[Branches[i]].err

\* Every step has ended and one has raised: chain1 re-raises, final_prompt
\* never runs, except Exception shows the message.
ChainRaise ==
    /\ phase = "busy"
    /\ final = "wait"
    /\ \A b \in BranchNames : branch[b].pc \in {"done", "failed"}
    /\ \E b \in BranchNames : branch[b].pc = "failed"
    /\ final' = "failed"
    /\ st_error' = Append(st_error, ErrorMessage(FirstFailure))
    /\ phase' = "shown"
    /\ UNCHANGED <<essay_input, doc_info, branch, calls, result, clean_result,
                   st_warning, st_report, st_download>>

Next ==
    \/ \E text \in Essays : TypeEssay(text)
    \/ PressAnalyze
    \/ \E b \in BranchNames : BranchCall(b)
    \/ \E b \in BranchNames, out \in Outputs : BranchReturn(b, out)
    \/ \E b \in BranchNames, err \in Failures : BranchRaise(b, err)
    \/ FinalCall
    \/ \E report \in ChainReports : FinalReturn(report)
    \/ \E err \in Failures : FinalRaise(err)
    \/ ChainRaise

Spec == Init /\ [][Next]_vars

---------------------------------------------------------------------------
(* The Document Info column over all short essays: one entry into the     *)
(* text area of the freshly loaded page.                                   *)

NextStats == essay_input = <<>> /\ \E text \in StatEssays : TypeEssay(text)

SpecStats == Init /\ [][NextStats]_vars

---------------------------------------------------------------------------
(* The rendering of the report over all short reports: the request of essay *)
(* "a" with every branch complete and the final invocation pending.         *)

AwaitingReport ==
    /\ essay_input = <<"a">>
    /\ doc_info = DocumentInfo(<<"a">>)
    /\ phase = "busy"
    /\ branch = [b \in BranchNames |-> [pc |-> "done", val |-> <<"x">>, err |-> ""]]
    /\ final = "calling"
    /\ calls =
         [by \in Issuers |->
            LET Ok(prompt) == [prompt |-> prompt, status |-> "ok", out |-> <<"x">>, err |-> ""]
                first == Ok(Format(essay_prompt, [essay |-> <<"a">>]))
                second == Ok(Format(SecondTemplate(by), [analysis_output |-> <<"x">>]))
            IN  IF by = "summary" THEN <<first>>
                ELSE IF by = "final"
                THEN <<[prompt |-> Format(final_prompt, [b \in BranchNames |-> <<"x">>]),
                        status |-> "pending", out |-> <<>>, err |-> ""]>>
                ELSE <<first, second>>]
    /\ result = <<>>
    /\ clean_result = <<>>
    /\ st_warning = FALSE
    /\ st_error = <<>>
    /\ st_report = <<>>
    /\ st_download = <<>>

NextRender == final = "calling" /\ \E report \in Reports : FinalReturn(report)

SpecRender == AwaitingReport /\ [][NextRender]_vars

\* AwaitingReport is a state of Spec (TLC reaches it: this invariant fails).
NotAwaitingReport == ~AwaitingReport

---------------------------------------------------------------------------
(* Properties: the chain *)

\* The number of llm invocations of the request.
TotalCalls ==
    Len(calls["summary"]) + Len(calls["Weakness"]) + Len(calls["Suggestions"])
    + Len(calls["final"])

\* Empty, or whitespace only.
Blank(text) == \A i \in DOMAIN text : text[i] \in {" ", NL}

\* llm has raised on a call of branch b.
RaisedIn(b) == \E i \in DOMAIN calls[b] : calls[b][i].status = "raised"

\* essay_prompt as the model must receive it for an essay.
EssayPromptFor(essay) ==
    <<[lit |-> essay_prompt[1].lit, text |-> <<>>], [lit |-> "", text |-> essay]>>

\* C1: for blank input (empty or whitespace only) "Analyze Essay" makes no
\* llm invocation, shows the warning, and shows no report, no download and
\* no error message.
C1_BlankInputOnlyWarns ==
    (phase # "idle" /\ Blank(essay_input)) =>
        /\ phase = "shown"
        /\ TotalCalls = 0
        /\ st_warning
        /\ st_report = <<>>
        /\ st_download = <<>>
        /\ st_error = <<>>

C1_Witness ==
    phase = "shown" /\ st_warning /\ essay_input # <<>> /\ Blank(essay_input)

\* C2: the final invocation exists only when each of the three branches is
\* complete and every invocation the branches made has returned.
C2_FinalAfterJoin ==
    calls["final"] # <<>> =>
        \A b \in BranchNames :
            /\ branch[b].pc = "done"
            /\ calls[b] # <<>>
            /\ \A i \in DOMAIN calls[b] : calls[b][i].status = "ok"

C2_Witness ==
    final = "calling" /\ calls["final"] # <<>> /\ calls["final"][1].status = "pending"

\* C3: once llm has raised in a branch, no report is written, no download
\* is offered and the final invocation is never made; when the handler ends
\* there is exactly one error message, "Analysis failed: " followed by the
\* description of a failure that was raised.
C3_FailureShowsOnlyError ==
    (\E b \in BranchNames : RaisedIn(b)) =>
        /\ st_report = <<>>
        /\ st_download = <<>>
        /\ result = <<>>
        /\ phase = "shown" =>
            /\ Len(st_error) = 1
            /\ st_error[1].prefix = AnalysisFailed
            /\ \E b \in BranchNames :
                 /\ RaisedIn(b)
                 /\ st_error[1].description = calls[b][Len(calls[b])].err

C3_Witness ==
    /\ phase = "shown"
    /\ branch["summary"].pc = "done"
    /\ branch["Suggestions"].pc = "done"
    /\ Len(calls["Weakness"]) = 2
    /\ RaisedIn("Weakness")

\* C4: each branch's first prompt is essay_prompt over the essay as typed;
\* the second prompt of Weakness and Suggestions carries that branch's own
\* first output; the final prompt carries the Weakness output after
\* "MAIN WEAKNESSES:", the Suggestions output after "SUGGESTIONS FOR
\* IMPROVEMENT:" and the summary output after "OVERVIEW:".
C4_Bindings ==
    /\ \A b \in BranchNames :
         calls[b] # <<>> => calls[b][1].prompt = EssayPromptFor(essay_input)
    /\ Len(calls["Weakness"]) >= 2 =>
         calls["Weakness"][2].prompt =
            <<[lit |-> weakness_highlighter[1].lit, text |-> <<>>],
              [lit |-> "", text |-> calls["Weakness"][1].out]>>
    /\ Len(calls["Suggestions"]) >= 2 =>
         calls["Suggestions"][2].prompt =
            <<[lit |-> suggestion_generator[1].lit, text |-> <<>>],
              [lit |-> "", text |-> calls["Suggestions"][1].out]>>
    /\ calls["final"] # <<>> =>
         calls["final"][1].prompt =
            <<[lit |-> final_prompt[1].lit, text |-> <<>>],
              [lit |-> "", text |-> calls["Weakness"][2].out],
              [lit |-> final_prompt[3].lit, text |-> <<>>],
              [lit |-> "", text |-> calls["Suggestions"][2].out],
              [lit |-> final_prompt[5].lit, text |-> <<>>],
              [lit |-> "", text |-> calls["summary"][1].out],
              [lit |-> final_prompt[7].lit, text |-> <<>>]>>

C4_Witness ==
    /\ calls["final"] # <<>>
    /\ essay_input[1] = " "
    /\ calls["Weakness"][1].out # calls["Suggestions"][1].out
    /\ calls["Weakness"][1].out # calls["Weakness"][2].out
    /\ calls["Weakness"][2].out # calls["Suggestions"][2].out
    /\ calls["summary"][1].out # calls["Weakness"][2].out

\* C10: at most six invocations per request (one by summary, two each by
\* Weakness and Suggestions, one final); an issuer makes no invocation after
\* one of its invocations has raised, and the final one is not made after a
\* branch has raised; when all succeed there are exactly six: essay_prompt
\* over the same essay three times, weakness_highlighter once,
\* suggestion_generator once, final_prompt once.
C10_SixCallsNoRetry ==
    /\ TotalCalls <= 6
    /\ Len(calls["summary"]) <= 1
    /\ Len(calls["Weakness"]) <= 2
    /\ Len(calls["Suggestions"]) <= 2
    /\ Len(calls["final"]) <= 1
    /\ \A by \in Issuers : \A i \in DOMAIN calls[by] :
         calls[by][i].status = "raised" => i = Len(calls[by])
    /\ (\E b \in BranchNames : RaisedIn(b)) => calls["final"] = <<>>
    /\ final = "done" =>
         /\ TotalCalls = 6
         /\ \A b \in BranchNames : calls[b][1].prompt = EssayPromptFor(essay_input)
         /\ calls["Weakness"][2].prompt[1].lit = weakness_highlighter[1].lit
         /\ calls["Suggestions"][2].prompt[1].lit = suggestion_generator[1].lit
         /\ calls["final"][1].prompt[1].lit = final_prompt[1].lit

C10_Witness == phase = "shown" /\ final = "done" /\ TotalCalls = 6

---------------------------------------------------------------------------
(* Properties: the report *)

Min(S) == CHOOSE x \in S : \A y \in S : x <= y
Max(S) == CHOOSE x \in S : \A y \in S : x >= y

\* A text without its leading and trailing whitespace.
Trim(text) ==
    LET solid == {i \in DOMAIN text : text[i] \notin {" ", NL}}
    IN  IF solid = {} THEN <<>> ELSE SubSeq(text, Min(solid), Max(solid))

\* The line begins with the label, in upper or lower case letters.
BeginsWith(line, label) ==
    /\ Len(line) >= Len(label)
    /\ \A i \in DOMAIN label :
         \/ line[i] = label[i]
         \/ \E k \in DOMAIN UpperCase : UpperCase[k] = label[i] /\ LowerCase[k] = line[i]

\* The subheading a header line stands for, "" for a line that is no header.
LabelOf(line) ==
    IF BeginsWith(line, MAIN_WEAKNESSES) THEN "Main Weaknesses"
    ELSE IF BeginsWith(line, SUGGESTIONS) THEN "Suggestions for Improvement"
    ELSE IF BeginsWith(line, OVERVIEW) THEN "Overview"
    ELSE ""

\* The blank-line-separated sections of a text that are not blank.
SectionsOf(text) == SelectSeq(Split(text, <<NL, NL>>), LAMBDA c : ~Blank(c))

FirstLine(section) == Split(section, <<NL>>)[1]

\* The text is made of sections that each start with one of the three headers.
Headed(text) ==
    /\ SectionsOf(text) # <<>>
    /\ \A i \in DOMAIN SectionsOf(text) : LabelOf(FirstLine(SectionsOf(text)[i])) # ""

HeaderLabels(text) ==
    [i \in DOMAIN SectionsOf(text) |-> LabelOf(FirstLine(SectionsOf(text)[i]))]

\* The subheadings written under "Analysis Report", in order.
RenderedLabels ==
    LET subs == SelectSeq(Tail(st_report), LAMBDA item : item.kind = "subheader")
    IN  [i \in DOMAIN subs |-> subs[i].label]

\* C5: the download's data is the string the final invocation returned,
\* which is also the value of result: cleanup and rendering change neither.
C5_DownloadIsRawReport ==
    st_download # <<>> =>
        /\ Len(st_download) = 1
        /\ st_download[1].data = calls["final"][1].out
        /\ result = calls["final"][1].out

C5_Witness ==
    st_download # <<>> /\ clean_result # result /\ Len(st_report) > 1

\* C6 as stated: for a report made of blank-line-separated sections that each
\* start with one of the three headers, the subheadings written are the
\* labels of those sections, one for each, in their order.
C6_ReportSections ==
    (final = "done" /\ Headed(result)) => RenderedLabels = HeaderLabels(result)

\* C6 amended: the same of the sections of the cleaned text (the report with
\* its "|" and "---" removed), which is the text the page splits.
C6_CleanedSections ==
    (final = "done" /\ Headed(clean_result)) => RenderedLabels = HeaderLabels(clean_result)

C6_Witness ==
    /\ final = "done"
    /\ Headed(clean_result)
    /\ RenderedLabels = <<"Overview", "Suggestions for Improvement", "Main Weaknesses">>

\* One bullet, trimmed, for each line that is not blank.
BulletsOf(lines) ==
    LET kept == SelectSeq(lines, LAMBDA l : ~Blank(l))
    IN  [i \in DOMAIN kept |-> Write(<<BulletMark, " ">> \o Trim(kept[i]))]

\* What a section must render as, by the header on the first line of the
\* trimmed section: the subheading, then a body made of the lines after the
\* header.  loneHeader says what the body of an OVERVIEW section of one line
\* is: "header" for the header line itself, "nothing" for no line at all.
ExpectedSection(section, loneHeader) ==
    LET lines == Split(Trim(section), <<NL>>)
        label == LabelOf(lines[1])
    IN  IF label \in {"Main Weaknesses", "Suggestions for Improvement"}
        THEN <<Rule, Subheader(label)>> \o BulletsOf(Tail(lines))
        ELSE IF label = "Overview"
        THEN <<Rule, Subheader(label),
               Write(IF Len(lines) = 1 /\ loneHeader = "header"
                     THEN lines[1]
                     ELSE Join(<<" ">>, Tail(lines)))>>
        ELSE IF Len(lines) > 1 THEN <<Write(section)>> ELSE <<>>

RECURSIVE ExpectedSections(_, _)
ExpectedSections(sections, loneHeader) ==
    IF sections = <<>> THEN <<>>
    ELSE ExpectedSection(sections[1], loneHeader)
         \o ExpectedSections(Tail(sections), loneHeader)

\* C7 as stated: every section's body is built from the lines after its
\* header line only (bullets for MAIN WEAKNESSES and SUGGESTIONS, the lines
\* joined by single spaces for OVERVIEW), also for a section of one line.
C7_BodyExcludesHeader ==
    final = "done" =>
        st_report = <<Subheader("Analysis Report")>>
                    \o ExpectedSections(SectionsOf(clean_result), "nothing")

\* C7 amended: as stated, except that an OVERVIEW section that consists of
\* its header line alone has that header line as its body.
C7_BodyFromLinesAfterHeader ==
    final = "done" =>
        st_report = <<Subheader("Analysis Report")>>
                    \o ExpectedSections(SectionsOf(clean_result), "header")

C7_Witness ==
    /\ final = "done"
    /\ \E i \in DOMAIN st_report :
         /\ st_report[i] = Subheader("Overview")
         /\ st_report[i + 1] = Write(<<"o","v","e","r","v","i","e","w">>)
    /\ \E i \in DOMAIN st_report :
         /\ st_report[i] = Subheader("Main Weaknesses")
         /\ i < Len(st_report)
         /\ st_report[i + 1].kind = "write"
         /\ SubSeq(st_report[i + 1].text, 1, 2) = <<BulletMark, " ">>

\* A text all of whose runs of "-" are of exactly seven.
MaximalRun(text, a, b) ==
    /\ a <= b
    /\ \A k \in a..b : text[k] = "-"
    /\ a = 1 \/ text[a - 1] # "-"
    /\ b = Len(text) \/ text[b + 1] # "-"

RunsOfSeven(text) ==
    /\ \E i \in DOMAIN text : text[i] = "-"
    /\ \A a, b \in DOMAIN text : MaximalRun(text, a, b) => b - a + 1 = 7

\* C9 (first part): the cleaned text holds no "|" and no "---".
CleanHasNoMarkup ==
    final = "done" =>
        /\ \A i \in DOMAIN clean_result : clean_result[i] # "|"
        /\ \A i \in 1..(Len(clean_result) - 2) :
             SubSeq(clean_result, i, i + 2) # <<"-","-","-">>

\* C9: the cleaned text holds no "|" and no "---", and a report whose runs
\* of "-" are of exactly seven leaves no "-" in the cleaned text.
C9_CleanupStripsMarkup ==
    final = "done" =>
        /\ \A i \in DOMAIN clean_result : clean_result[i] # "|"
        /\ \A i \in 1..(Len(clean_result) - 2) :
             SubSeq(clean_result, i, i + 2) # <<"-","-","-">>
        /\ RunsOfSeven(result) => \A i \in DOMAIN clean_result : clean_result[i] # "-"

---------------------------------------------------------------------------
(* Properties: Document Info *)

Content(c) == c \notin {" ", NL, ".", "?", "!"}

\* The first characters of the maximal runs of non-whitespace characters.
WordStarts(text) ==
    {i \in DOMAIN text : text[i] \notin {" ", NL} /\ (i = 1 \/ text[i - 1] \in {" ", NL})}

\* The first non-whitespace characters after the start of the text or after
\* a double newline.
ParagraphStarts(text) ==
    {i \in DOMAIN text :
        /\ text[i] \notin {" ", NL}
        /\ \A j \in 1..(i - 1) :
             text[j] \notin {" ", NL} =>
                \E k \in (j + 1)..(i - 2) : text[k] = NL /\ text[k + 1] = NL}

\* The first characters that are neither whitespace nor ".", "?", "!" after
\* the start of the text or after one of ".", "?", "!".
SentenceStarts(text) ==
    {i \in DOMAIN text :
        /\ Content(text[i])
        /\ \A j \in 1..(i - 1) :
             Content(text[j]) => \E k \in (j + 1)..(i - 1) : text[k] \in {".", "?", "!"}}

\* C8: the counts shown are the number of whitespace-free tokens, of non-blank
\* chunks between double newlines, and of non-blank chunks between ".", "?"
\* and "!"; "one two three" has 3 words, "a\n\nb\n\nc" 3 paragraphs and
\* "Hi. Bye! Ok?" 3 sentences.
C8_Statistics ==
    /\ doc_info # <<>> =>
         /\ doc_info[1].words = Cardinality(WordStarts(essay_input))
         /\ doc_info[1].paragraphs = Cardinality(ParagraphStarts(essay_input))
         /\ doc_info[1].sentences = Cardinality(SentenceStarts(essay_input))
    /\ DocumentInfo(<<"o","n","e"," ","t","w","o"," ","t","h","r","e","e">>)[1].words = 3
    /\ DocumentInfo(<<"a",NL,NL,"b",NL,NL,"c">>)[1].paragraphs = 3
    /\ DocumentInfo(<<"H","i","."," ","B","y","e","!"," ","O","k","?">>)[1].sentences = 3

C8_Witness ==
    /\ doc_info = <<[words |-> 2, paragraphs |-> 2, sentences |-> 2]>>
    /\ \E i \in DOMAIN essay_input : essay_input[i] = "."

=============================================================================
